---- MODULE Spec2Model ----
(***************************************************************************)
(* Model of the express-ts-api-template request pipeline:                  *)
(*   - requireAuth (auth.middleware.ts), the session authenticator;        *)
(*   - the user router (user.routes.ts) with /profile and /dashboard;      *)
(*   - the two variants of the application (server.ts): the one mounting   *)
(*     Better Auth, and the one with the /users listing;                   *)
(*   - errorHandler (error.middleware.ts), the global error responder.     *)
(* Strings that the code inspects (the Authorization header, tokens) are    *)
(* sequences of one-character strings; texts built by template literals    *)
(* are sequences of their parts.  All requests are GET requests.           *)
(***************************************************************************)
EXTENDS Integers, Sequences, FiniteSets, TLC

VARIABLES sessions, now, dbUp, reqs, done, firstOk

vars == <<sessions, now, dbUp, reqs, done, firstOk>>

(* ---------------------------- bounds ----------------------------------- *)
MaxReq  == 1      \* number of requests in flight at the same time under Spec
MaxTime == 2      \* the wall clock runs over 0..MaxTime
MaxConc == 2      \* number of requests in flight at the same time under SpecConc

(* ---------------------------- values ----------------------------------- *)
Null == [null |-> TRUE]

\* process.env.PORT || 3000
PORT == 3000

TokA == <<"x">>
TokB == <<"y">>
TokC == <<"z">>

\* the literal "Bearer " of authHeader.startsWith("Bearer ")
BearerPrefix == <<"B", "e", "a", "r", "e", "r", " ">>

Absent == [present |-> FALSE, value |-> <<>>]
Hdr(s) == [present |-> TRUE, value |-> s]

\* sample values of req.headers.authorization
Headers ==
  { Absent,
    Hdr(<<>>),
    Hdr(<<"B", "e", "a", "r", "e", "r">>),
    Hdr(<<"B", "a", "s", "i", "c", " ">> \o TokA),
    Hdr(BearerPrefix),
    Hdr(BearerPrefix \o TokA),
    Hdr(BearerPrefix \o TokB),
    Hdr(BearerPrefix \o TokC),
    Hdr(BearerPrefix \o TokA \o <<" ">> \o TokC) }

UserIds == {"u1", "u2"}

UserNames == [u \in UserIds |-> IF u = "u1" THEN "A" ELSE "B"]

\* rows of the User table as Prisma returns them with include: { user: true }
UserRow(id) ==
  [id |-> id, email |-> <<id, "@b.com">>, name |-> UserNames[id], emailVerified |-> FALSE]

\* rows of the Session table the external auth subsystem may have issued
SessionA == [token |-> TokA, expiresAt |-> 1, userId |-> "u1"]
SessionB == [token |-> TokB, expiresAt |-> MaxTime, userId |-> "u2"]

\* failures a datastore call can reject with
DbErrors == { [name |-> "PrismaClientInitializationError", message |-> "Can't reach database server"] }

\* failures handed directly to the error responder
HandlerErrors == { [name |-> "Error", message |-> "boom"] } \cup DbErrors

(* ------------------------- string helpers ------------------------------ *)
\* String.prototype.startsWith
StartsWith(s, p) == Len(s) >= Len(p) /\ SubSeq(s, 1, Len(p)) = p

\* String.prototype.split with a one-character separator
RECURSIVE Split(_, _)
Split(s, c) ==
  IF \A i \in 1..Len(s) : s[i] # c
  THEN <<s>>
  ELSE LET i == CHOOSE k \in 1..Len(s) : s[k] = c /\ \A j \in 1..(k - 1) : s[j] # c
       IN  <<SubSeq(s, 1, i - 1)>> \o Split(SubSeq(s, i + 1, Len(s)), c)

\* String(error) of an Error object: "<name>: <message>"
ErrToString(e) == <<e.name, ": ", e.message>>

(* --------------------------- requireAuth ------------------------------- *)
\* a header check that forgets the scheme
NoTokenProvided_SchemeUnchecked(h) ==
  \/ ~h.present
  \/ h.value = <<>>
  \/ Len(Split(h.value, " ")) < 2

\* !authHeader || !authHeader.startsWith("Bearer ")
NoTokenProvided(h) ==
  \/ ~h.present
  \/ h.value = <<>>
  \/ ~StartsWith(h.value, BearerPrefix)

\* authHeader.split(" ")[1]
TokenOf(h) == Split(h.value, " ")[2]

\* a lookup that drops its where clause
FindUnique_AnyRow(store, token) ==
  IF store # {}
  THEN LET s == CHOOSE x \in store : TRUE
       IN  [token |-> s.token, expiresAt |-> s.expiresAt, userId |-> s.userId,
            user |-> UserRow(s.userId)]
  ELSE Null

\* prisma.session.findUnique({ where: { token }, include: { user: true } })
FindUnique(store, token) ==
  IF \E s \in store : s.token = token
  THEN LET s == CHOOSE x \in store : x.token = token
       IN  [token |-> s.token, expiresAt |-> s.expiresAt, userId |-> s.userId,
            user |-> UserRow(s.userId)]
  ELSE Null

\* !session || session.expiresAt < new Date()
SessionRejected(session, t) ==
  \/ session = Null
  \/ session.expiresAt < t

\* an identity that is the whole user row
UserProjection_WholeRow(session) == session.user

\* an identity kept in a variable of the module, which the request answered
\* last has already set
UserProjection_LastSeen(session) ==
  IF done.user # Null
  THEN done.user
  ELSE [id |-> session.user.id, email |-> session.user.email, name |-> session.user.name]

\* req.user = { id, email, name }
UserProjection(session) ==
  [id |-> session.user.id, email |-> session.user.email, name |-> session.user.name]

Res401NoToken == [status |-> 401, body |-> [error |-> <<"Unauthorized: No Token provided">>]]
Res401Invalid == [status |-> 401, body |-> [error |-> <<"Unauthorized: Invalid or expired token">>]]

\* a catch block that reports the cause to the client
AuthCatchRes_Leaky(e) ==
  [status |-> 500, body |-> [error |-> <<"Internal server error during auth: ", e.message>>]]

\* catch (error): res.status(500).json({ error: `Internal server error during auth` })
AuthCatchRes(e) == [status |-> 500, body |-> [error |-> <<"Internal server error during auth">>]]

\* console.error(`Auth middleware error: ${error}`)
AuthLogLine(e) == [by |-> "requireAuth", text |-> <<"Auth middleware error: ">> \o ErrToString(e)]

(* --------------------------- user routes ------------------------------- *)
RouterPaths == {"/profile", "/dashboard"}

\* the requests sent to the router: every sample header on /profile, and
\* the headers without a token and with a session's token on /dashboard
RouterInputs ==
  { [path |-> "/profile", header |-> h] : h \in Headers } \cup
  { [path |-> "/dashboard", header |-> h] : h \in {Absent, Hdr(BearerPrefix \o TokA)} }

\* a profile response that carries the time it was served at
ProfileBody_Stamped(user) ==
  [message |-> <<"This is a protected route">>, user |-> user, servedAt |-> now]

ProfileBody(user)   == [message |-> <<"This is a protected route">>, user |-> user]
DashboardBody(user) == [message |-> <<"Welcome to your dashboard!">>, user |-> user]

\* the handler the router runs after requireAuth called next()
RouterHandler(path, user) ==
  [status |-> 200,
   body |-> IF path = "/profile" THEN ProfileBody(user) ELSE DashboardBody(user)]

(* ------------------------- error responder ----------------------------- *)
\* an error responder that answers in the README's shape, { error }
ErrorHandlerRes_NoMessage(err) == [status |-> 500, body |-> [error |-> <<err.message>>]]

\* res.status(500).json({ error: "Internal server error", message: err.message })
ErrorHandlerRes(err) ==
  [status |-> 500, body |-> [error |-> <<"Internal server error">>, message |-> <<err.message>>]]

\* console.error(`Error: ${err.message}`)
ErrorHandlerLog(err) == [by |-> "errorHandler", text |-> <<"Error: ", err.message>>]

(* --------------------------- applications ------------------------------ *)
\* the layers registered on each application, in registration order
ServerLayers ==
  << [kind |-> "route", prefix |-> "/api/auth/", exact |-> FALSE, handler |-> "betterAuth"],
     [kind |-> "use",   prefix |-> "",           exact |-> FALSE, handler |-> "json"],
     [kind |-> "route", prefix |-> "/health",    exact |-> TRUE,  handler |-> "health"] >>

UsersServerLayers ==
  << [kind |-> "use",   prefix |-> "",        exact |-> FALSE, handler |-> "json"],
     [kind |-> "route", prefix |-> "/health", exact |-> TRUE,  handler |-> "health"],
     [kind |-> "route", prefix |-> "/users",  exact |-> TRUE,  handler |-> "users"] >>

Apps == {"server", "usersServer"}
LayersOf(app) == IF app = "server" THEN ServerLayers ELSE UsersServerLayers

\* request paths, as a mount prefix and the rest
AppPaths ==
  { [prefix |-> "/health",    rest |-> ""],
    [prefix |-> "/users",     rest |-> ""],
    [prefix |-> "/api/auth/", rest |-> "sign-out"],
    [prefix |-> "/api/user",  rest |-> "/profile"],
    [prefix |-> "/api/user",  rest |-> "/dashboard"] }

\* the Authorization headers sent to the applications: absent, of another
\* scheme, with an unknown token, with a session's token
AppHeaders ==
  { Absent, Hdr(<<"B", "a", "s", "i", "c", " ">> \o TokA),
    Hdr(BearerPrefix \o TokC), Hdr(BearerPrefix \o TokA) }

LayerMatches(l, p) ==
  /\ l.kind = "route"
  /\ l.prefix = p.prefix
  /\ (l.exact => p.rest = "")

\* the handler of the first route that matches, "none" when no route matches
Dispatch(app, p) ==
  LET ls == LayersOf(app)
      hits == { i \in 1..Len(ls) : LayerMatches(ls[i], p) }
  IN  IF hits = {} THEN "none"
      ELSE ls[CHOOSE i \in hits : \A j \in hits : i <= j].handler

\* the error-handling middleware registered on the application
ErrorLayers(app) ==
  LET ls == LayersOf(app) IN { i \in 1..Len(ls) : ls[i].kind = "error" }

\* a health check that answers only while the datastore does
HealthRes_DbCheck ==
  IF dbUp
  THEN [status |-> 200,
        body |-> [status |-> <<"ok">>, message |-> <<"Server is running on port ", PORT>>]]
  ELSE [status |-> 503,
        body |-> [status |-> <<"down">>, message |-> <<"Server is running on port ", PORT>>]]

\* res.json({ status: "ok", message: `Server is running on port ${PORT}` })
HealthRes == [status |-> 200,
              body |-> [status |-> <<"ok">>, message |-> <<"Server is running on port ", PORT>>]]

\* what Express answers when no route matches, and when an error reaches the
\* end of the stack with no error-handling middleware: a non-JSON page
Express404 == [status |-> 404, body |-> [html |-> <<"Cannot GET">>]]
Express500(err) == [status |-> 500, body |-> [html |-> ErrToString(err)]]
ExpressLog(err) == [by |-> "express", text |-> ErrToString(err)]

\* the answer of the Better Auth handler is opaque to this code
BetterAuthRes == [status |-> 200, body |-> [opaque |-> TRUE]]

(* ------------------------------ state ---------------------------------- *)
\* sessions: the Session table; now: the wall clock; dbUp: whether the
\* datastore answers; reqs: the requests in flight, each suspended at an
\* await; done: the request completed most recently, with what was sent to
\* its client and written to the console while handling it, and issued, the
\* row of the Session table that held the text after "Bearer " when its
\* lookup settled, resumedAt,
\* the time at which requireAuth resumed after its await, and expiryChecks,
\* the number of times session.expiresAt was compared; firstOk: the first request the router answered with 200, which
\* is recorded under SpecRepeat only.
IdleReq ==
  [pc |-> "idle", entry |-> "none", path |-> "none", header |-> Absent,
   lookups |-> 0, found |-> Null, failure |-> Null, resumedAt |-> -1,
   user |-> Null, nextCalls |-> 0, handlerRuns |-> 0, sent |-> <<>>, logged |-> <<>>,
   issued |-> Null, token |-> <<>>, expiryChecks |-> 0]

NoFirstOk(pc) == [pc |-> pc, path |-> "none", header |-> Absent, sent |-> <<>>, at |-> -1]

Init ==
  /\ sessions \in SUBSET {SessionA, SessionB}
  /\ now = 0
  /\ dbUp \in BOOLEAN
  /\ reqs = [r \in 1..MaxReq |-> IdleReq]
  /\ done = IdleReq
  /\ firstOk = NoFirstOk("off")

Reqs == DOMAIN reqs

\* a request takes the first free slot
CanArrive(r) ==
  /\ reqs[r].pc = "idle"
  /\ \A q \in Reqs : q < r => reqs[q].pc # "idle"

Arrived(r, entry, path, h) ==
  [reqs[r] EXCEPT !.entry = entry, !.path = path, !.header = h]

\* a branch that answers and falls through to a second answer
Completes_Double(r, q) ==
  /\ done' = [q EXCEPT !.pc = "done", !.sent = @ \o @]
  /\ reqs' = [reqs EXCEPT ![r] = IdleReq]
  /\ firstOk' = firstOk

\* the response is written and the request object is dropped
Completes(r, q) ==
  /\ done' = [q EXCEPT !.pc = "done"]
  /\ reqs' = [reqs EXCEPT ![r] = IdleReq]
  /\ firstOk' = IF /\ firstOk.pc = "idle"
                   /\ q.entry = "userRouter"
                   /\ q.sent # <<>>
                   /\ q.sent[1].status = 200
                THEN [pc |-> "done", path |-> q.path, header |-> q.header, sent |-> q.sent,
                      at |-> q.resumedAt]
                ELSE firstOk

(* ----------------------- the user router ------------------------------- *)
\* router.get(path, requireAuth, handler): requireAuth up to its await
RouterArrive(r, path, h) ==
  /\ CanArrive(r)
  /\ LET q == Arrived(r, "userRouter", path, h) IN
     IF NoTokenProvided(h)
     THEN Completes(r, [q EXCEPT !.sent = Append(@, Res401NoToken)])
     ELSE /\ reqs' = [reqs EXCEPT ![r] =
               [q EXCEPT !.pc = "awaiting", !.token = TokenOf(h), !.lookups = @ + 1]]
          /\ UNCHANGED <<done, firstOk>>
  /\ UNCHANGED <<sessions, now, dbUp>>

\* the text of a header after its first seven characters
AfterPrefix(h) == SubSeq(h.value, Len(BearerPrefix) + 1, Len(h.value))

\* the session whose token is that text, if the table holds one
IssuedFor(h) ==
  IF \E s \in sessions : s.token = AfterPrefix(h)
  THEN CHOOSE s \in sessions : s.token = AfterPrefix(h)
  ELSE Null

\* the datastore answers the findUnique query, or the call rejects
LookupSettles(r) ==
  /\ reqs[r].pc = "awaiting"
  /\ \/ /\ dbUp
        /\ reqs' = [reqs EXCEPT ![r] =
             [@ EXCEPT !.pc = "resumable", !.issued = IssuedFor(reqs[r].header),
                       !.found = FindUnique(sessions, reqs[r].token)]]
     \/ /\ ~dbUp
        /\ \E e \in DbErrors :
             reqs' = [reqs EXCEPT ![r] =
               [@ EXCEPT !.pc = "resumable", !.issued = IssuedFor(reqs[r].header),
                         !.failure = e]]
  /\ UNCHANGED <<sessions, now, dbUp, done, firstOk>>

\* a check against a clock read once, when the module was loaded
ClockAtCheck_Startup(q) == 0

\* new Date(), evaluated when the expiration is compared
ClockAtCheck(q) == now

\* a check that ends the session it has just accepted or rejected
StoreAfterAuth_Revoking(store, session) ==
  IF session = Null THEN store ELSE { s \in store : s.token # session.token }

\* the Session table after requireAuth has run: it writes nothing
StoreAfterAuth(store, session) == store

\* requireAuth after its await, and the route handler when next() is called
AuthResume(r) ==
  /\ reqs[r].pc = "resumable"
  /\ LET q == reqs[r] IN
     IF q.failure # Null
     THEN /\ Completes(r, [q EXCEPT !.resumedAt = now,
                                    !.logged = Append(@, AuthLogLine(q.failure)),
                                    !.sent = Append(@, AuthCatchRes(q.failure))])
          /\ sessions' = sessions
     ELSE IF SessionRejected(q.found, ClockAtCheck(q))
     THEN /\ Completes(r, [q EXCEPT !.resumedAt = now,
                                    !.expiryChecks = IF q.found = Null THEN @ ELSE @ + 1,
                                    !.sent = Append(@, Res401Invalid)])
          /\ sessions' = StoreAfterAuth(sessions, q.found)
     ELSE /\ Completes(r, [q EXCEPT !.resumedAt = now,
                                    !.expiryChecks = @ + 1,
                                    !.user = UserProjection(q.found),
                                    !.nextCalls = @ + 1,
                                    !.handlerRuns = @ + 1,
                                    !.sent = Append(@, RouterHandler(q.path, UserProjection(q.found)))])
          /\ sessions' = StoreAfterAuth(sessions, q.found)
  /\ UNCHANGED <<now, dbUp>>

(* ------------------------- the applications ---------------------------- *)
AppArrive(r, app, p, h) ==
  /\ CanArrive(r)
  /\ LET hd == Dispatch(app, p)
         q == Arrived(r, app, <<p.prefix, p.rest>>, h)
     IN  CASE hd = "health" ->
                Completes(r, [q EXCEPT !.handlerRuns = @ + 1, !.sent = Append(@, HealthRes)])
           [] hd = "users" ->
                /\ reqs' = [reqs EXCEPT ![r] =
                     [q EXCEPT !.pc = "usersAwaiting", !.handlerRuns = @ + 1]]
                /\ UNCHANGED <<done, firstOk>>
           [] hd = "betterAuth" ->
                Completes(r, [q EXCEPT !.sent = Append(@, BetterAuthRes)])
           [] OTHER ->
                Completes(r, [q EXCEPT !.sent = Append(@, Express404)])
  /\ UNCHANGED <<sessions, now, dbUp>>

\* an error passed to next(err): the first error-handling middleware of the
\* application answers, and Express itself when there is none
ErrorDispatch(r, q, e) ==
  IF ErrorLayers(q.entry) # {}
  THEN Completes(r, [q EXCEPT !.failure = e,
                              !.logged = Append(@, ErrorHandlerLog(e)),
                              !.sent = Append(@, ErrorHandlerRes(e))])
  ELSE Completes(r, [q EXCEPT !.failure = e,
                              !.logged = Append(@, ExpressLog(e)),
                              !.sent = Append(@, Express500(e))])

\* prisma.user.findMany() settles inside the /users handler
UsersSettles(r) ==
  /\ reqs[r].pc = "usersAwaiting"
  /\ \/ /\ dbUp
        /\ Completes(r, [reqs[r] EXCEPT !.sent =
             Append(@, [status |-> 200, body |-> [users |-> {UserRow(u) : u \in UserIds}]])])
     \/ /\ ~dbUp
        /\ \E e \in DbErrors : ErrorDispatch(r, reqs[r], e)
  /\ UNCHANGED <<sessions, now, dbUp>>

\* errorHandler(err, req, res, next) invoked with a failure
ErrorHandlerCall(r, err) ==
  /\ CanArrive(r)
  /\ Completes(r, [reqs[r] EXCEPT !.entry = "errorHandler", !.failure = err,
                                  !.logged = Append(@, ErrorHandlerLog(err)),
                                  !.sent = Append(@, ErrorHandlerRes(err))])
  /\ UNCHANGED <<sessions, now, dbUp>>

(* --------------------------- environment ------------------------------- *)
\* the wall clock read by new Date()
Tick ==
  /\ now < MaxTime
  /\ now' = now + 1
  /\ UNCHANGED <<sessions, dbUp, reqs, done, firstOk>>

\* the auth subsystem ends a session (sign-out)
SignOut(s) ==
  /\ s \in sessions
  /\ sessions' = sessions \ {s}
  /\ UNCHANGED <<now, dbUp, reqs, done, firstOk>>

\* the datastore becomes unreachable, or reachable again
DbFlip ==
  /\ dbUp' = ~dbUp
  /\ UNCHANGED <<sessions, now, reqs, done, firstOk>>

Env ==
  \/ Tick
  \/ \E s \in {SessionA, SessionB} : SignOut(s)
  \/ DbFlip

\* the exported router and middleware, driven request by request
Next ==
  \/ \E r \in Reqs, i \in RouterInputs : RouterArrive(r, i.path, i.header)
  \/ \E r \in Reqs : LookupSettles(r)
  \/ \E r \in Reqs : AuthResume(r)
  \/ \E r \in Reqs, e \in HandlerErrors : ErrorHandlerCall(r, e)
  \/ Env

Spec == Init /\ [][Next]_vars

\* the router under repeated requests, the first success being recorded
InitRepeat ==
  /\ sessions \in SUBSET {SessionA, SessionB}
  /\ now = 0
  /\ dbUp \in BOOLEAN
  /\ reqs = [r \in 1..MaxReq |-> IdleReq]
  /\ done = IdleReq
  /\ firstOk = NoFirstOk("idle")

RepeatInputs ==
  { i \in RouterInputs :
      i.header \in {Absent, Hdr(BearerPrefix \o TokA), Hdr(BearerPrefix \o TokB),
                    Hdr(BearerPrefix \o TokC)} }

NextRepeat ==
  \/ \E r \in Reqs, i \in RepeatInputs : RouterArrive(r, i.path, i.header)
  \/ \E r \in Reqs : LookupSettles(r)
  \/ \E r \in Reqs : AuthResume(r)
  \/ Env

SpecRepeat == InitRepeat /\ [][NextRepeat]_vars

\* the router with several requests suspended at their lookups at once
InitConc ==
  /\ sessions \in SUBSET {SessionA, SessionB}
  /\ now = 0
  /\ dbUp \in BOOLEAN
  /\ reqs = [r \in 1..MaxConc |-> IdleReq]
  /\ done = IdleReq
  /\ firstOk = NoFirstOk("off")

ConcInputs ==
  { i \in RouterInputs :
      /\ i.path = "/profile"
      /\ i.header \in {Absent, Hdr(BearerPrefix \o TokA), Hdr(BearerPrefix \o TokB)} }

NextConc ==
  \/ \E r \in Reqs, i \in ConcInputs : RouterArrive(r, i.path, i.header)
  \/ \E r \in Reqs : LookupSettles(r)
  \/ \E r \in Reqs : AuthResume(r)
  \/ Env

SpecConc == InitConc /\ [][NextConc]_vars

\* the router with every request arriving at time 0, before any session of
\* the table expires, and the clock moving while its lookup is pending
ExpiryHeaders == {Hdr(BearerPrefix \o TokA), Hdr(BearerPrefix \o TokB)}

ExpiryArrive(r, h) ==
  /\ now = 0
  /\ RouterArrive(r, "/profile", h)

NextExpiry ==
  \/ \E r \in Reqs, h \in ExpiryHeaders : ExpiryArrive(r, h)
  \/ \E r \in Reqs : LookupSettles(r)
  \/ \E r \in Reqs : AuthResume(r)
  \/ Env

SpecExpiry == Init /\ [][NextExpiry]_vars

\* the router under the scheduling of the event loop: the continuation of a
\* settled lookup is run; nothing makes the datastore settle a lookup
LiveInputs ==
  { i \in RouterInputs :
      i.header \in {Absent, Hdr(BearerPrefix \o TokA), Hdr(BearerPrefix \o TokC)} }

NextLive ==
  \/ \E r \in Reqs, i \in LiveInputs : RouterArrive(r, i.path, i.header)
  \/ \E r \in Reqs : LookupSettles(r)
  \/ \E r \in Reqs : AuthResume(r)
  \/ Env

SpecLive ==
  /\ Init
  /\ [][NextLive]_vars
  /\ \A r \in 1..MaxReq : WF_vars(AuthResume(r))

\* the two applications of server.ts, as they are wired
AppNext ==
  \/ \E r \in Reqs, app \in Apps, p \in AppPaths, h \in AppHeaders : AppArrive(r, app, p, h)
  \/ \E r \in Reqs : UsersSettles(r)
  \/ Env

SpecApp == Init /\ [][AppNext]_vars

TypeOK ==
  /\ now \in 0..MaxTime
  /\ dbUp \in BOOLEAN
  /\ sessions \subseteq {SessionA, SessionB}
  /\ \A r \in Reqs : reqs[r].pc \in {"idle", "awaiting", "resumable", "usersAwaiting"}

(* ------------------------------ claims --------------------------------- *)
\* the request completed most recently went through the user router
OnRouter == done.pc = "done" /\ done.entry = "userRouter"

\* the request completed most recently went through one of the applications
OnApp == done.pc = "done" /\ done.entry \in Apps

Unauthorized(text) == <<[status |-> 401, body |-> [error |-> <<text>>]]>>

\* the header is "Bearer " followed by a text without spaces
WellFormedBearer(h) ==
  /\ h.present
  /\ StartsWith(h.value, BearerPrefix)
  /\ \A i \in (Len(BearerPrefix) + 1)..Len(h.value) : h.value[i] # " "

\* the identity of a user: the three fields of its row
IdentityOf(u) == [id |-> UserRow(u).id, email |-> UserRow(u).email, name |-> UserRow(u).name]

MessageOf(path) ==
  IF path = "/profile" THEN <<"This is a protected route">> ELSE <<"Welcome to your dashboard!">>

Range(f) == { f[i] : i \in DOMAIN f }

\* C1: a request bearing the token of a session that exists and whose
\* expiresAt is at or before the time of the check (expiresAt = now included)
\* is answered 401 "Unauthorized: Invalid or expired token", and a session is
\* accepted only when its expiresAt is strictly after the time of the check.
C1_ExpiredOrAtExpiryRejected ==
  /\ (OnRouter /\ done.failure = Null /\ done.issued # Null
        /\ done.issued.expiresAt <= done.resumedAt)
        => done.sent = Unauthorized("Unauthorized: Invalid or expired token")
  /\ (OnRouter /\ done.sent[1].status = 200)
        => (done.found # Null /\ done.found.expiresAt > done.resumedAt)

\* C2: a request whose Authorization header is absent, or does not start with
\* "Bearer ", is answered 401 "Unauthorized: No Token provided", whatever the
\* Session table holds and whether or not the datastore answers.
C2_NoTokenIs401 ==
  (OnRouter /\ (~done.header.present \/ ~StartsWith(done.header.value, BearerPrefix)))
     => done.sent = Unauthorized("Unauthorized: No Token provided")

C2_Witness ==
  /\ OnRouter
  /\ done.header = Hdr(<<"B", "a", "s", "i", "c", " ">> \o TokA)
  /\ done.sent = Unauthorized("Unauthorized: No Token provided")
  /\ SessionA \in sessions
  /\ ~dbUp

\* C3: a request with a well-formed Bearer header whose token is the token of
\* no row of the Session table, the lookup having answered, is answered 401
\* "Unauthorized: Invalid or expired token".
C3_UnknownTokenIs401 ==
  (OnRouter /\ WellFormedBearer(done.header) /\ done.failure = Null /\ done.issued = Null)
     => done.sent = Unauthorized("Unauthorized: Invalid or expired token")

C3_Witness ==
  /\ OnRouter
  /\ done.header = Hdr(BearerPrefix \o TokC)
  /\ done.failure = Null
  /\ done.issued = Null
  /\ sessions # {}
  /\ done.sent[1].status = 401

\* C4: a request bearing the token of a session that exists and whose
\* expiresAt is strictly after the time of the check runs the protected
\* handler once, with req.user holding exactly id, email and name of the
\* session's user, and is answered 200 with { message, user: that identity }.
C4_ValidGetsIdentity ==
  (OnRouter /\ done.failure = Null /\ done.issued # Null
     /\ done.issued.expiresAt > done.resumedAt)
     => /\ done.handlerRuns = 1
        /\ DOMAIN done.user = {"id", "email", "name"}
        /\ done.user = IdentityOf(done.issued.userId)
        /\ done.sent = <<[status |-> 200,
                          body |-> [message |-> MessageOf(done.path),
                                    user |-> IdentityOf(done.issued.userId)]]>>

C4_Witness ==
  /\ OnRouter
  /\ done.path = "/dashboard"
  /\ done.issued = SessionA
  /\ done.resumedAt = 0
  /\ done.sent[1].status = 200
  /\ done.user = IdentityOf("u1")

\* C5: a failure no handler catches is answered by the error responder with
\* 500 { error: "Internal server error", message: the failure's message },
\* and is logged exactly once.
C5_UncaughtReachesErrorHandler ==
  (OnApp /\ done.failure # Null)
     => /\ done.sent = <<[status |-> 500,
                          body |-> [error |-> <<"Internal server error">>,
                                    message |-> <<done.failure.message>>]]>>
        /\ Len(done.logged) = 1

\* C6: a GET of /api/user/profile or /api/user/dashboard sent to the
\* application reaches the user router: it is answered by requireAuth or by
\* the protected handler, 401 "No Token provided" when it has no header and
\* { message, user } when it is answered 200.
C6_AppRoutesUserPaths ==
  (OnApp /\ done.path[1] = "/api/user")
     => /\ done.sent[1].status \in {200, 401, 500}
        /\ (~done.header.present
              => done.sent = Unauthorized("Unauthorized: No Token provided"))
        /\ (done.sent[1].status = 200
              => DOMAIN done.sent[1].body = {"message", "user"})

\* C7: when a protected handler has run, requireAuth has called next() once
\* and attached an identity from a session that the lookup returned and whose
\* expiresAt was strictly after the time of the check; when requireAuth has
\* answered 401 or 500, next() was not called, no handler ran and req.user
\* was not set.
C7_HandlerOnlyAfterValidAuth ==
  /\ (OnRouter /\ done.handlerRuns > 0)
        => /\ done.nextCalls = 1
           /\ done.found # Null
           /\ done.found.expiresAt > done.resumedAt
           /\ done.user = IdentityOf(done.found.userId)
  /\ (OnRouter /\ done.sent[1].status \in {401, 500})
        => (done.nextCalls = 0 /\ done.handlerRuns = 0 /\ done.user = Null)

\* C8: when the session lookup rejects, the request is answered 500 with the
\* fixed text "Internal server error during auth" and nothing of the cause,
\* the cause is written to the console, and one lookup was issued.
C8_LookupFailureIs500 ==
  (OnRouter /\ done.failure # Null)
     => /\ done.sent = <<[status |-> 500,
                          body |-> [error |-> <<"Internal server error during auth">>]]>>
        /\ \A f \in DOMAIN done.sent[1].body :
              Range(done.sent[1].body[f]) \cap {done.failure.message, done.failure.name} = {}
        /\ \E i \in DOMAIN done.logged : done.failure.message \in Range(done.logged[i].text)
        /\ done.lookups = 1
        /\ done.handlerRuns = 0

C8_Witness ==
  /\ OnRouter
  /\ done.failure \in DbErrors
  /\ done.sent[1].status = 500
  /\ Len(done.logged) = 1

\* the request completed most recently was answered by first-party code
FirstParty == done.pc = "done" /\ done.entry \in {"userRouter", "errorHandler"}

C10_RepeatGetsSameResponse ==
  (/\ firstOk.pc = "done"
   /\ OnRouter
   /\ done.path = firstOk.path
   /\ done.header = firstOk.header
   /\ done.failure = Null
   /\ done.issued # Null
   /\ done.issued.expiresAt > done.resumedAt)
     => done.sent = firstOk.sent

C10_Witness ==
  /\ firstOk.pc = "done"
  /\ OnRouter
  /\ done.path = firstOk.path
  /\ done.header = firstOk.header
  /\ done.resumedAt > firstOk.at
  /\ done.sent = firstOk.sent
  /\ done.sent[1].status = 200

\* C11: GET /health on either application is answered 200 with
\* { status: "ok", message: "Server is running on port <PORT>" }, the same
\* for every Authorization header, every content of the Session table and
\* with the datastore up or down; no lookup is issued, requireAuth does not
\* run (no identity, no failure, nothing logged) and the request does not wait.
C11_HealthAlwaysOk ==
  /\ (OnApp /\ done.path = <<"/health", "">>)
        => /\ done.sent = <<[status |-> 200,
                             body |-> [status |-> <<"ok">>,
                                       message |-> <<"Server is running on port ", 3000>>]]>>
           /\ done.lookups = 0
           /\ done.user = Null
           /\ done.failure = Null
           /\ done.logged = <<>>
  /\ \A r \in Reqs : reqs[r].pc # "idle" => reqs[r].path # <<"/health", "">>

C11_Witness ==
  /\ OnApp
  /\ done.path = <<"/health", "">>
  /\ done.header = Hdr(BearerPrefix \o TokC)
  /\ done.sent[1].status = 200
  /\ ~dbUp
  /\ sessions = {SessionA, SessionB}

\* C12: for a header that starts with "Bearer ", the token the lookup is
\* keyed on is the whole text after "Bearer " (also when that text has spaces
\* or is empty), and the lookup returns a session only when its token equals
\* that text.
C12_TokenIsTextAfterPrefix ==
  /\ \A r \in Reqs : reqs[r].pc \in {"awaiting", "resumable"}
        => reqs[r].token = AfterPrefix(reqs[r].header)
  /\ (OnRouter /\ done.lookups = 1 /\ done.failure = Null)
        => /\ done.token = AfterPrefix(done.header)
           /\ (done.found = Null <=> done.issued = Null)
           /\ (done.found # Null => done.found.token = AfterPrefix(done.header))

\* C13: no step of requireAuth or of a handler changes the Session table:
\* whenever a request is received, suspended, resumed or answered (401, 500
\* or 200), every session keeps its token, owner and expiresAt, and none is
\* created or deleted.
C13_AuthNeverWritesSessions ==
  [][(reqs' # reqs \/ done' # done) => sessions' = sessions]_vars

C13_Witness ==
  /\ OnRouter
  /\ done.sent[1].status = 200
  /\ done.found # Null
  /\ done.issued \in sessions
  /\ done.issued.expiresAt = done.found.expiresAt

\* the response to a request handled alone: a function of its own header and
\* path, of the row the Session table held for its token when its lookup
\* settled, of whether that lookup rejected, and of the clock when it resumed
AloneResponse(q) ==
  IF ~q.header.present \/ ~StartsWith(q.header.value, BearerPrefix)
  THEN [status |-> 401, body |-> [error |-> <<"Unauthorized: No Token provided">>]]
  ELSE IF q.failure # Null
  THEN [status |-> 500, body |-> [error |-> <<"Internal server error during auth">>]]
  ELSE IF q.issued = Null \/ q.issued.expiresAt < q.resumedAt
  THEN [status |-> 401, body |-> [error |-> <<"Unauthorized: Invalid or expired token">>]]
  ELSE [status |-> 200,
        body |-> [message |-> MessageOf(q.path), user |-> IdentityOf(q.issued.userId)]]

\* C14: with requests interleaving at their lookups, each request is
\* answered as it would be if handled alone; the identity on a request is
\* that of its own session's user or none, and a request that has not
\* resumed carries no identity and no response.
C14_RequestsDoNotInterfere ==
  /\ OnRouter
        => /\ done.sent = <<AloneResponse(done)>>
           /\ done.user = IF done.sent[1].status = 200
                          THEN IdentityOf(done.issued.userId) ELSE Null
  /\ \A r \in Reqs : reqs[r].user = Null /\ reqs[r].sent = <<>>

C14_Witness ==
  /\ OnRouter
  /\ done.user = IdentityOf("u1")
  /\ \E r \in Reqs : /\ reqs[r].pc = "resumable"
                     /\ reqs[r].issued = SessionB
  /\ \E r \in Reqs : /\ reqs[r].pc = "awaiting"
                     /\ reqs[r].header = Hdr(BearerPrefix \o TokA)

\* C15: the header check comes first: a request whose Authorization header
\* is absent or does not start with "Bearer " never issues a lookup and never
\* reaches the expiration check, only requests with the prefix are ever
\* suspended at a lookup, and the expiration is compared only on a row the
\* one lookup of the request has returned.
C15_ChecksInOrder ==
  /\ \A r \in Reqs :
        reqs[r].pc \in {"awaiting", "resumable"}
           => /\ reqs[r].header.present
              /\ StartsWith(reqs[r].header.value, BearerPrefix)
              /\ reqs[r].lookups = 1
              /\ reqs[r].expiryChecks = 0
  /\ (OnRouter /\ (~done.header.present \/ ~StartsWith(done.header.value, BearerPrefix)))
        => /\ done.lookups = 0
           /\ done.found = Null /\ done.issued = Null /\ done.failure = Null
           /\ done.expiryChecks = 0
           /\ done.resumedAt = -1
  /\ (OnRouter /\ done.expiryChecks > 0)
        => /\ done.expiryChecks = 1
           /\ done.lookups = 1
           /\ done.found # Null
           /\ done.failure = Null
  /\ (OnRouter /\ done.lookups = 1 /\ (done.found = Null \/ done.failure # Null))
        => done.expiryChecks = 0

C15_Witness ==
  /\ OnRouter
  /\ done.header = Hdr(<<"B", "e", "a", "r", "e", "r">>)
  /\ done.lookups = 0
  /\ done.sent[1].status = 401
  /\ dbUp
  /\ sessions = {SessionA, SessionB}

\* C16: the expiration is compared with the clock read when the middleware
\* resumes after the lookup, not with the time of arrival: every request
\* here arrived at time 0, when no session of the table had expired, and a
\* request whose session's expiresAt is earlier than the clock at its
\* resumption is answered 401 "Unauthorized: Invalid or expired token", while
\* one whose expiresAt is still later is answered 200.
C16_ExpiryReadAtEvaluation ==
  /\ \A s \in {SessionA, SessionB} : s.expiresAt > 0
  /\ (OnRouter /\ done.failure = Null /\ done.issued # Null
        /\ done.issued.expiresAt < done.resumedAt)
        => done.sent = Unauthorized("Unauthorized: Invalid or expired token")
  /\ (OnRouter /\ done.failure = Null /\ done.issued # Null
        /\ done.issued.expiresAt > done.resumedAt)
        => done.sent[1].status = 200

C16_Witness ==
  /\ OnRouter
  /\ done.issued = SessionA
  /\ done.resumedAt = SessionA.expiresAt + 1
  /\ done.sent = Unauthorized("Unauthorized: Invalid or expired token")
  /\ SessionA \in sessions

\* C17: a request whose lookup has settled (a row, no row, or a rejection)
\* is eventually answered, and the step that answers it writes exactly one
\* response, 200, 401 or 500; a request whose lookup has not settled has no
\* response, and the only step it can take is the settling of its lookup.
C17_OneResponseOnceLookupSettles ==
  /\ \A r \in 1..MaxReq : (reqs[r].pc = "resumable") ~> (reqs[r].pc = "idle")
  /\ [][\A r \in Reqs :
          /\ reqs[r].pc = "awaiting"
                => /\ reqs'[r].pc \in {"awaiting", "resumable"}
                   /\ reqs'[r].sent = <<>>
          /\ (reqs[r].pc = "resumable" /\ reqs'[r] # reqs[r])
                => /\ reqs[r].sent = <<>>
                   /\ reqs'[r] = IdleReq
                   /\ done'.pc = "done"
                   /\ done'.header = reqs[r].header
                   /\ done'.path = reqs[r].path
                   /\ Len(done'.sent) = 1
                   /\ done'.sent[1].status \in {200, 401, 500}]_vars

C17_Witness ==
  /\ OnRouter
  /\ done.path = "/dashboard"
  /\ done.lookups = 1
  /\ Len(done.sent) = 1
  /\ done.sent[1].status = 200
  /\ done.resumedAt = 1

====
